---- MODULE Spec2Model ----
(***************************************************************************)
(* A model of create.ts, the project scaffolder of app-templates: the      *)
(* command line is parsed, a template is located (local checkout) or       *)
(* downloaded file by file into a temporary directory (remote), the        *)
(* destination is inspected and, when it is not empty, a plan is printed   *)
(* and a confirmation requested, and the template tree is copied entry by  *)
(* entry with a <path>.backup made of every file that is replaced.         *)
(*                                                                         *)
(* A path is a sequence of components; a component <<name, n>> is the file *)
(* name `name` followed by n ".backup" suffixes, so that appending the     *)
(* suffix to "p" gives the very name a template file "p.backup" has.       *)
(* A tree is a function from paths to DIR or to the bytes of a file; its   *)
(* root is the path << >>.                                                 *)
(***************************************************************************)
EXTENDS Integers, Sequences, FiniteSets, TLC

VARIABLES
  isRemote,   \* main: !import.meta.url.startsWith('file://')
  argv,       \* Deno.args: [t |-> args[0], p |-> args[1]]
  tpl,        \* the templates root (<base>/templates, or templates/ of the repository)
  cwd,        \* the tree under Deno.cwd()
  tmp,        \* the temporary download directory, NoTmp when there is none
  pc,         \* where main() stands
  exitCode,   \* the process's exit code, Running until it ends
  options,    \* the CliOptions parseCliArguments returned
  dl,         \* downloadFromGitHub's call stack
  cp,         \* copyFilesIndividually's call stack
  answer,     \* what confirm() returned: "none", "yes", "no"
  runs,       \* the number of invocations started so far
  out,        \* what has been printed in this invocation
  hist        \* what happened, for the properties (no operation reads it)

vars == <<isRemote, argv, tpl, cwd, tmp, pc, exitCode, options, dl, cp, answer, runs, out, hist>>

(* ------------------------------ bounds -------------------------------- *)

\* the number of invocations of the command against the same directory
MaxRuns == 2

(* ----------------------------- constants ------------------------------ *)

TEMPLATES_DIR == "templates"

DIR == "<dir>"
NoArg == "<undefined>"
\* the exit code of a process that has not ended
Running == -1
\* Deno.cwd(), an absolute path
CWD == "/work"

(* ------------------------------- paths -------------------------------- *)

Comp(name) == <<name, 0>>

\* `${path}.backup`
Backup(path) == [path EXCEPT ![Len(path)] = <<@[1], @[2] + 1>>]

\* dirname(path)
Dirname(path) == SubSeq(path, 1, Len(path) - 1)

IsPrefix(pre, path) ==
  /\ Len(pre) <= Len(path)
  /\ SubSeq(path, 1, Len(pre)) = pre

Prefixes(path) == {SubSeq(path, 1, n) : n \in 0..Len(path)}

(* ------------------------------- trees -------------------------------- *)

Root == (<< >> :> DIR)

\* no temporary directory
NoTmp == (<< >> :> "<none>")

Exists(tree, path) == path \in DOMAIN tree

IsDir(tree, path) == Exists(tree, path) /\ tree[path] = DIR

IsFile(tree, path) == Exists(tree, path) /\ tree[path] # DIR

Files(tree) == {p \in DOMAIN tree : tree[p] # DIR}

\* the names Deno.readDir(dir) yields
Children(tree, dir) ==
  {p[Len(p)] : p \in {q \in DOMAIN tree : Len(q) = Len(dir) + 1 /\ IsPrefix(dir, q)}}

\* the tree below `prefix`, its paths relative to it
Sub(tree, prefix) ==
  [r \in {SubSeq(q, Len(prefix) + 1, Len(q)) : q \in {x \in DOMAIN tree : IsPrefix(prefix, x)}}
     |-> tree[prefix \o r]]

\* `tree` placed at `prefix`
Mount(prefix, tree) ==
  [q \in {prefix \o r : r \in DOMAIN tree} |-> tree[SubSeq(q, Len(prefix) + 1, Len(q))]]

\* ensureDir(path) / Deno.mkdir(path, {recursive: true}): throws when a file is in the way
CanEnsureDir(tree, path) == \A q \in Prefixes(path) : Exists(tree, q) => tree[q] = DIR

EnsureDir(tree, path) == [q \in DOMAIN tree \cup Prefixes(path) |-> IF Exists(tree, q) THEN tree[q] ELSE DIR]

\* Deno.copyFile(from, to): from is a file, to is absent or a file, to's directory exists
CanCopyFile(fromTree, from, toTree, to) ==
  /\ IsFile(fromTree, from)
  /\ ~IsDir(toTree, to)
  /\ IsDir(toTree, Dirname(to))

WriteFile(tree, path, bytes) == [q \in DOMAIN tree \cup {path} |-> IF q = path THEN bytes ELSE tree[q]]

\* Deno.remove(path): a file or an empty directory
CanRemove(tree, path) ==
  /\ Exists(tree, path)
  /\ IsDir(tree, path) => Children(tree, path) = {}

Remove(tree, path) == [q \in DOMAIN tree \ {path} |-> tree[q]]

(* ---------------------------- conversions ------------------------------ *)

\* the bytes that are well-formed UTF-8 without a byte order mark
ValidUtf8 == {"t1", "t2", "doc", "d1", "d2", "d3"}

\* Response.text(): malformed sequences become U+FFFD
Utf8Decode(bytes) == IF bytes \in ValidUtf8 THEN bytes ELSE "U+FFFD"

\* Deno.writeTextFile(path, text) writes the UTF-8 encoding of the text
Utf8Encode(text) == text

(* ----------------------------- environment ---------------------------- *)

P == <<Comp("p")>>
D == <<Comp("d")>>
DQ == <<Comp("d"), Comp("q")>>
U == <<Comp("u")>>

\* the template trees considered
TemplateTrees ==
  { Root @@ (P :> "t1"),
    Root @@ (P :> "t1") @@ (Backup(P) :> "t2"),
    Root @@ (D :> DIR) @@ (DQ :> "t1") @@ (P :> "bin") }

\* the templates root: one template directory and a file next to it
TemplatesRoot(t) == Root @@ Mount(<<Comp("app")>>, t) @@ (<<Comp("README")>> :> "doc")

\* what the destination holds before the first invocation, when it exists
DestTrees ==
  { Root,
    Root @@ (P :> "d1"),
    Root @@ (P :> "d1") @@ (Backup(P) :> "d2"),
    Root @@ (U :> "d3"),
    Root @@ (D :> DIR) @@ (DQ :> "d1") @@ (U :> "d3"),
    Root @@ (D :> "d2"),
    Root @@ (P :> DIR),
    Root @@ (P :> DIR) @@ (P \o U :> "d1"),
    Root @@ (P :> "d1") @@ (Backup(Backup(P)) :> "d3") }

TemplateArgs == {NoArg, "", "list", "app", "README", "nope"}
ProjectArgs == {NoArg, "", ".", "./", CWD, "new"}

(* ------------------------- parseCliArguments -------------------------- *)

\* the operand of || that makes it take its right-hand side
Falsy(x) == x \in {NoArg, ""}

ParseCliArguments(args) ==
  LET templateName == args.t
      projectName == IF Falsy(args.p) THEN templateName ELSE args.p
      isCurrentDir == projectName \in {".", "./", "", CWD}
  IN  [ templateName |-> templateName,
        projectName |-> IF isCurrentDir THEN "." ELSE projectName,
        isCurrentDir |-> isCurrentDir ]

\* join(Deno.cwd(), projectName), relative to Deno.cwd()
ProjectPath(projectName) ==
  IF projectName \in {".", "./", ""} THEN << >>
  ELSE IF projectName = CWD THEN <<Comp("work")>>
  ELSE <<Comp(projectName)>>

NoOptions == [templateName |-> NoArg, projectName |-> NoArg, isCurrentDir |-> FALSE]

(* ------------------------------- state -------------------------------- *)

OutInit ==
  [ usage |-> FALSE,        \* the usage text, on the error stream
    names |-> {},           \* the template names printed on the error stream
    pendingFetch |-> FALSE, \* showUsage's request, its callbacks not yet run
    listed |-> {},          \* the template names printed by list
    plan |-> {},            \* the paths the plan marks with '!'
    backups |-> {},         \* the paths of the 'Created backup:' lines
    success |-> FALSE,      \* 'created successfully!'
    hint |-> FALSE,         \* 'Navigate to the project'
    errors |-> {} ]         \* the error and warning lines

HistInit(tree) ==
  [ origin |-> tree,        \* cwd before the first invocation
    cwd0 |-> tree,          \* cwd when this invocation started
    fault |-> FALSE,        \* a request or a file operation of this invocation failed
    clean |-> TRUE,         \* every earlier invocation copied without a failing step
    overwritten |-> {},     \* the files replaced: path, bytes before, backup made
    notFound |-> {},        \* the remote paths whose listing answered 404
    lost |-> {},            \* the remote paths given up: listings and downloads
    copyReached |-> FALSE,  \* copyFilesIndividually was called
    cleanupTried |-> FALSE ]\* Deno.remove(templatePath) was called

InitCwd(args, d) == Root @@ Mount(ProjectPath(ParseCliArguments(args).projectName), d)

Init ==
  /\ isRemote \in BOOLEAN
  /\ argv \in [t : TemplateArgs, p : ProjectArgs]
  /\ tpl \in {TemplatesRoot(t) : t \in TemplateTrees}
  /\ cwd \in {Root} \cup {InitCwd(argv, d) : d \in DestTrees}
  /\ tmp = NoTmp
  /\ pc = "main"
  /\ exitCode = Running
  /\ options = NoOptions
  /\ dl = << >>
  /\ cp = << >>
  /\ answer = "none"
  /\ runs = 1
  /\ out = OutInit
  /\ hist = HistInit(cwd)

\* Deno.exit(code), or main() returning
Exit(code) ==
  /\ pc' = "done"
  /\ exitCode' = code

Say(line) == [out EXCEPT !.errors = @ \cup {line}]

(* -------------------------------- main -------------------------------- *)

\* a variant of TemplateNames: the kind of the entries is not looked at
TemplateNamesOfAllEntries == {c[1] : c \in Children(tpl, << >>)}

\* the names of the directory entries of the templates root
TemplateNames == {c[1] : c \in {x \in Children(tpl, << >>) : IsDir(tpl, <<x>>)}}

\* main, the list command: listTemplates, then Deno.exit(0)
MainList ==
  /\ pc = "main"
  /\ ParseCliArguments(argv).templateName = "list"
  /\ options' = ParseCliArguments(argv)
  /\ \E ok \in BOOLEAN :
       /\ ok \/ isRemote
       /\ out' = IF ok THEN [out EXCEPT !.listed = TemplateNames]
                 ELSE Say("Could not list templates")
       /\ hist' = [hist EXCEPT !.fault = ~ok]
  /\ Exit(0)
  /\ UNCHANGED <<isRemote, argv, tpl, cwd, tmp, dl, cp, answer, runs>>

\* showUsage: the local names are printed at once; the remote names are printed by
\* the callbacks of a request that is started and not awaited
ShowUsage(o) ==
  IF isRemote
  THEN [o EXCEPT !.usage = TRUE, !.pendingFetch = TRUE]
  ELSE [o EXCEPT !.usage = TRUE, !.names = TemplateNames]

\* main, no template name: showUsage, then Deno.exit(1) in the same turn
MainUsage ==
  /\ pc = "main"
  /\ Falsy(ParseCliArguments(argv).templateName)
  /\ options' = ParseCliArguments(argv)
  /\ out' = ShowUsage(out)
  /\ Exit(1)
  /\ UNCHANGED <<isRemote, argv, tpl, cwd, tmp, dl, cp, answer, runs, hist>>

\* main, a template name: on to fetchTemplate
MainScaffold ==
  /\ pc = "main"
  /\ ParseCliArguments(argv).templateName # "list"
  /\ ~Falsy(ParseCliArguments(argv).templateName)
  /\ options' = ParseCliArguments(argv)
  /\ pc' = "fetch"
  /\ UNCHANGED <<isRemote, argv, tpl, cwd, tmp, exitCode, dl, cp, answer, runs, out, hist>>

(* ---------------------------- fetchTemplate --------------------------- *)

\* join(basePath, TEMPLATES_DIR, templateName), relative to the templates root
TemplatePath == <<Comp(options.templateName)>>

\* the local branch's check: exists(templatePath)
TemplateFound == Exists(tpl, TemplatePath)

FetchLocal ==
  /\ pc = "fetch"
  /\ ~isRemote
  /\ IF TemplateFound
     THEN /\ pc' = "create"
          /\ UNCHANGED <<exitCode, out>>
     ELSE /\ out' = Say("Template not found")
          /\ Exit(1)
  /\ UNCHANGED <<isRemote, argv, tpl, cwd, tmp, options, dl, cp, answer, runs, hist>>

\* the remote branch: Deno.makeTempDirSync, then downloadFromGitHub is called
FetchRemote ==
  /\ pc = "fetch"
  /\ isRemote
  /\ tmp' = Root
  /\ dl' = << [rel |-> << >>, req |-> TRUE, todo |-> {}] >>
  /\ pc' = "download"
  /\ UNCHANGED <<isRemote, argv, tpl, cwd, exitCode, options, cp, answer, runs, out, hist>>

(* -------------------------- downloadFromGitHub ------------------------ *)

Top(stack) == stack[Len(stack)]

Pop(stack) == SubSeq(stack, 1, Len(stack) - 1)

\* the calls whose loop over the entries is over return to their callers
RECURSIVE Unwind(_)
Unwind(stack) ==
  IF stack = << >> THEN stack
  ELSE IF ~Top(stack).req /\ Top(stack).todo = {} THEN Unwind(Pop(stack))
  ELSE stack

\* `${TEMPLATES_DIR}/${templateName}` and below, as the request names it
RepoPath(rel) == <<Comp(TEMPLATES_DIR), Comp(options.templateName)>> \o rel

\* the same path inside the templates root
RemotePath(rel) == <<Comp(options.templateName)>> \o rel

\* repoPath.startsWith(`${TEMPLATES_DIR}/`)
StartsWithTemplatesDir(repoPath) == Len(repoPath) > 1 /\ repoPath[1] = Comp(TEMPLATES_DIR)

\* a variant of ListingIsFatal: the status is not looked at
ListingIsFatalAnyStatus(repoPath, response) == StartsWithTemplatesDir(repoPath)

\* the test that makes a failed listing fatal
ListingIsFatal(repoPath, response) == StartsWithTemplatesDir(repoPath) /\ response.status = 404

Threw == [status |-> 0, body |-> "threw"]

\* what the contents API answers for a path when nothing goes wrong
Answer(rel) ==
  IF IsDir(tpl, RemotePath(rel)) THEN [status |-> 200, body |-> "array"]
  ELSE IF IsFile(tpl, RemotePath(rel)) THEN [status |-> 200, body |-> "object"]
  ELSE [status |-> 404, body |-> "none"]

\* what fetch(url) can give: the answer, a failure status, or a rejected promise
Responses(rel) ==
  {Answer(rel), [status |-> 404, body |-> "none"], [status |-> 500, body |-> "none"], Threw}

\* after a call returned: the callers go on, or fetchTemplate returns
AfterDownload(stack) ==
  /\ dl' = Unwind(stack)
  /\ pc' = IF Unwind(stack) = << >> THEN "create" ELSE "download"
  /\ UNCHANGED exitCode

\* a call of downloadFromGitHub up to its loop: ensureDir, the listing request, its checks
DownloadListing ==
  /\ pc = "download"
  /\ dl # << >>
  /\ Top(dl).req
  /\ LET rel == Top(dl).rel IN
     \E response \in Responses(rel) :
       /\ tmp' = EnsureDir(tmp, rel)
       /\ hist' = [hist EXCEPT !.fault = @ \/ response.body # "array",
                               !.notFound = IF response.status = 404 THEN @ \cup {rel} ELSE @,
                               !.lost = IF \/ response.body \in {"array", "threw"}
                                           \/ ListingIsFatal(RepoPath(rel), response)
                                        THEN @ ELSE @ \cup {rel}]
       /\ CASE response = Threw ->
                 /\ out' = Say("Error fetching template")
                 /\ Exit(1)
                 /\ UNCHANGED dl
            [] response # Threw /\ response.status # 200 ->
                 IF ListingIsFatal(RepoPath(rel), response)
                 THEN /\ out' = Say("Template not found")
                      /\ Exit(1)
                      /\ UNCHANGED dl
                 ELSE /\ out' = Say("Error fetching")
                      /\ AfterDownload(Pop(dl))
            [] response.status = 200 /\ response.body = "object" ->
                 /\ out' = Say("Unexpected response format")
                 /\ AfterDownload(Pop(dl))
            [] response.status = 200 /\ response.body = "array" ->
                 /\ out' = out
                 /\ AfterDownload(Pop(dl) \o
                      << [rel |-> rel, req |-> FALSE, todo |-> Children(tpl, RemotePath(rel))] >>)
  /\ UNCHANGED <<isRemote, argv, tpl, cwd, options, cp, answer, runs>>

\* the copy aside of a file about to be replaced; a failure is only reported
BackupMade(tree, path, fails) ==
  /\ Exists(tree, path)
  /\ ~fails
  /\ CanCopyFile(tree, path, tree, Backup(path))

\* a variant of WithBackup: the copy aside is left out
WithBackupSkipped(tree, path, fails) == tree

\* a variant of WithBackup: an existing <path>.backup is kept
WithBackupKeepFirst(tree, path, fails) ==
  IF BackupMade(tree, path, fails) /\ ~Exists(tree, Backup(path))
  THEN WriteFile(tree, Backup(path), tree[path])
  ELSE tree

WithBackup(tree, path, fails) ==
  IF BackupMade(tree, path, fails) THEN WriteFile(tree, Backup(path), tree[path]) ELSE tree

\* a file entry: the bytes are fetched, read as text and written as text
Downloaded(tree, path, bytes) ==
  LET aside == WithBackup(tree, path, FALSE)
      freed == IF Exists(aside, path) THEN Remove(aside, path) ELSE aside
  IN  WriteFile(freed, path, Utf8Encode(Utf8Decode(bytes)))

\* one turn of the loop over the listed entries
DownloadItem ==
  /\ pc = "download"
  /\ dl # << >>
  /\ ~Top(dl).req
  /\ \E name \in Top(dl).todo :
       LET rel == Top(dl).rel
           item == rel \o <<name>>
           rest == Pop(dl) \o << [Top(dl) EXCEPT !.todo = @ \ {name}] >>
       IN  IF IsDir(tpl, RemotePath(item))
           THEN /\ tmp' = EnsureDir(tmp, item)
                /\ dl' = rest \o << [rel |-> item, req |-> TRUE, todo |-> {}] >>
                /\ UNCHANGED <<pc, exitCode, out, hist>>
           ELSE \E ok \in BOOLEAN :
                /\ tmp' = IF ok THEN Downloaded(EnsureDir(tmp, Dirname(item)), item, tpl[RemotePath(item)])
                          ELSE EnsureDir(tmp, Dirname(item))
                /\ out' = IF ok THEN out ELSE Say("Error downloading")
                /\ hist' = IF ok THEN hist
                           ELSE [hist EXCEPT !.fault = TRUE, !.lost = @ \cup {item}]
                /\ AfterDownload(rest)
  /\ UNCHANGED <<isRemote, argv, tpl, cwd, options, cp, answer, runs>>

(* ---------------------------- createProject --------------------------- *)

\* the directory fetchTemplate returned, as a tree
SrcTree == IF isRemote THEN tmp ELSE Sub(tpl, TemplatePath)

\* join(Deno.cwd(), options.projectName)
ProjectDir == ProjectPath(options.projectName)

\* the paths listFilesAndCheckOverlap prints with '!': the file entries of the template
\* for which something exists at the same place of the destination
\* a variant of ListFilesAndCheckOverlap: every file entry is marked
ListFilesAndMarkAll(src, dest, tree, rel) == Files(src) \ {<< >>}

RECURSIVE ListFilesAndCheckOverlap(_, _, _, _)
ListFilesAndCheckOverlap(src, dest, tree, rel) ==
  IF ~IsDir(src, rel) THEN {}
  ELSE UNION { IF IsDir(src, rel \o <<name>>)
               THEN ListFilesAndCheckOverlap(src, dest, tree, rel \o <<name>>)
               ELSE IF Exists(tree, dest \o rel \o <<name>>) THEN {rel \o <<name>>} ELSE {}
               : name \in Children(src, rel) }

\* createProject up to the copy: the destination is created, found empty, or its
\* plan is printed and the confirmation requested
CreateProject ==
  /\ pc = "create"
  /\ IF Exists(cwd, ProjectDir)
     THEN IF ~IsDir(cwd, ProjectDir)
          THEN /\ out' = Say("Error checking directory")
               /\ Exit(1)
               /\ hist' = [hist EXCEPT !.fault = TRUE]
               /\ UNCHANGED cwd
          ELSE IF Children(cwd, ProjectDir) # {}
          THEN /\ out' = [Say("Directory is not empty") EXCEPT
                            !.plan = ListFilesAndCheckOverlap(SrcTree, ProjectDir, cwd, << >>)]
               /\ pc' = "confirm"
               /\ UNCHANGED <<cwd, exitCode, hist>>
          ELSE /\ pc' = "copy"
               /\ UNCHANGED <<cwd, exitCode, out, hist>>
     ELSE /\ cwd' = EnsureDir(cwd, ProjectDir)
          /\ pc' = "copy"
          /\ UNCHANGED <<exitCode, out, hist>>
  /\ UNCHANGED <<isRemote, argv, tpl, tmp, options, dl, cp, answer, runs>>

\* a variant of Confirm: the answer is not looked at
ConfirmIgnored ==
  /\ pc = "confirm"
  /\ \E proceed \in BOOLEAN : answer' = IF proceed THEN "yes" ELSE "no"
  /\ pc' = "copy"
  /\ UNCHANGED <<isRemote, argv, tpl, cwd, tmp, exitCode, options, dl, cp, runs, out, hist>>

\* confirm('Do you want to proceed?'): declined, Deno.exit(0)
Confirm ==
  /\ pc = "confirm"
  /\ \E proceed \in BOOLEAN :
       /\ answer' = IF proceed THEN "yes" ELSE "no"
       /\ IF proceed
          THEN /\ pc' = "copy"
               /\ UNCHANGED <<exitCode, out>>
          ELSE /\ out' = Say("Aborting.")
               /\ Exit(0)
  /\ UNCHANGED <<isRemote, argv, tpl, cwd, tmp, options, dl, cp, runs, hist>>

(* ------------------------ copyFilesIndividually ----------------------- *)

\* the catch of createProject: the error is printed, Deno.exit(1)
CopyFailed ==
  /\ out' = Say("Error copying template")
  /\ hist' = [hist EXCEPT !.fault = TRUE, !.copyReached = TRUE]
  /\ Exit(1)

\* the first call: Deno.readDir of the template directory
CopyStart ==
  /\ pc = "copy"
  /\ IF IsDir(SrcTree, << >>)
     THEN /\ cp' = << [rel |-> << >>, req |-> FALSE, todo |-> Children(SrcTree, << >>)] >>
          /\ pc' = "copying"
          /\ hist' = [hist EXCEPT !.copyReached = TRUE]
          /\ UNCHANGED <<exitCode, out>>
     ELSE /\ CopyFailed
          /\ UNCHANGED cp
  /\ UNCHANGED <<isRemote, argv, tpl, cwd, tmp, options, dl, answer, runs>>

\* a variant of Removed: a directory is removed with what it holds
RemovedWithContents(tree, path, fails) ==
  IF Exists(tree, path) /\ fails # "remove"
  THEN [q \in {x \in DOMAIN tree : ~IsPrefix(path, x)} |-> tree[q]]
  ELSE tree

\* the replacement of a destination file: remove it if it exists, copy the template's
\* file; `fails` is "none", "remove" or "copy", the call that throws
Removed(tree, path, fails) ==
  IF Exists(tree, path) /\ fails # "remove" /\ CanRemove(tree, path)
  THEN Remove(tree, path)
  ELSE tree

Replaced(tree, path, fails) ==
  /\ ~Exists(Removed(tree, path, fails), path)
  /\ fails # "copy"
  /\ CanCopyFile(SrcTree, SubSeq(path, Len(ProjectDir) + 1, Len(path)), Removed(tree, path, fails), path)

\* the destination after a file entry: backup, removal, copy
CopyFile(tree, rel, backupFails, fails) ==
  LET path == ProjectDir \o rel
      aside == WithBackup(tree, path, backupFails)
  IN  IF Replaced(aside, path, fails)
      THEN WriteFile(Removed(aside, path, fails), path, SrcTree[rel])
      ELSE Removed(aside, path, fails)

\* one turn of the loop over the entries of a template directory
CopyEntry ==
  /\ pc = "copying"
  /\ cp # << >>
  /\ \E name \in Top(cp).todo :
       LET rel == Top(cp).rel \o <<name>>
           path == ProjectDir \o rel
           rest == Pop(cp) \o << [Top(cp) EXCEPT !.todo = @ \ {name}] >>
       IN  IF IsDir(SrcTree, rel)
           THEN IF CanEnsureDir(cwd, path)
                THEN /\ cwd' = EnsureDir(cwd, path)
                     /\ cp' = rest \o << [rel |-> rel, req |-> FALSE, todo |-> Children(SrcTree, rel)] >>
                     /\ UNCHANGED <<pc, exitCode, out, hist>>
                ELSE /\ CopyFailed
                     /\ UNCHANGED <<cwd, cp>>
           ELSE IF ~CanEnsureDir(cwd, Dirname(path))
                THEN /\ CopyFailed
                     /\ UNCHANGED <<cwd, cp>>
                ELSE \E backupFails \in BOOLEAN, fails \in {"none", "remove", "copy"} :
                     LET there == Exists(cwd, path)
                         made == BackupMade(cwd, path, backupFails)
                         aside == WithBackup(cwd, path, backupFails)
                         done == Replaced(aside, path, fails)
                     IN  /\ there \/ (~backupFails /\ fails # "remove")
                         /\ cwd' = CopyFile(cwd, rel, backupFails, fails)
                         /\ hist' = [hist EXCEPT
                              !.fault = @ \/ (there /\ ~made) \/ ~done,
                              !.overwritten = IF there /\ done /\ IsFile(cwd, path)
                                              THEN @ \cup {[path |-> path, was |-> cwd[path], saved |-> made]}
                                              ELSE @]
                         /\ IF done
                            THEN /\ out' = IF made THEN [out EXCEPT !.backups = @ \cup {rel}]
                                           ELSE IF there THEN Say("Error creating backup") ELSE out
                                 /\ cp' = rest
                                 /\ UNCHANGED <<pc, exitCode>>
                            ELSE /\ out' = [Say("Error copying template") EXCEPT
                                              !.backups = IF made THEN @ \cup {rel} ELSE @]
                                 /\ Exit(1)
                                 /\ UNCHANGED cp
  /\ UNCHANGED <<isRemote, argv, tpl, tmp, options, dl, answer, runs>>

\* a call whose loop is over returns to its caller
CopyReturn ==
  /\ pc = "copying"
  /\ cp # << >>
  /\ Top(cp).todo = {}
  /\ cp' = Pop(cp)
  /\ UNCHANGED <<isRemote, argv, tpl, cwd, tmp, pc, exitCode, options, dl, answer, runs, out, hist>>

\* createProject after the copy: the success message and the navigation hint; a
\* local run is over, a remote run goes on to the cleanup of main
CopyFinish ==
  /\ pc = "copying"
  /\ cp = << >>
  /\ out' = [out EXCEPT !.success = TRUE, !.hint = ~options.isCurrentDir]
  /\ IF isRemote
     THEN /\ pc' = "cleanup"
          /\ UNCHANGED exitCode
     ELSE Exit(0)
  /\ UNCHANGED <<isRemote, argv, tpl, cwd, tmp, options, dl, cp, answer, runs, hist>>

\* main, remote: Deno.remove(templatePath, {recursive: true}); a failure is a warning
Cleanup ==
  /\ pc = "cleanup"
  /\ \E ok \in BOOLEAN :
       /\ tmp' = IF ok THEN NoTmp ELSE tmp
       /\ out' = IF ok THEN out ELSE Say("Could not clean up temporary files")
       /\ hist' = [hist EXCEPT !.cleanupTried = TRUE, !.fault = @ \/ ~ok]
  /\ Exit(0)
  /\ UNCHANGED <<isRemote, argv, tpl, cwd, options, dl, cp, answer, runs>>

(* --------------------------- the next invocation ---------------------- *)

\* the same command is run again in the same directory; a temporary directory left
\* behind is not the one the next invocation makes
Rerun ==
  /\ pc = "done"
  /\ runs < MaxRuns
  /\ options.templateName \notin {NoArg, "list"}
  /\ runs' = runs + 1
  /\ pc' = "main"
  /\ exitCode' = Running
  /\ options' = NoOptions
  /\ tmp' = NoTmp
  /\ dl' = << >>
  /\ cp' = << >>
  /\ answer' = "none"
  /\ out' = OutInit
  /\ hist' = [HistInit(cwd) EXCEPT
                !.origin = hist.origin,
                !.clean = hist.clean /\ ~hist.fault /\ out.success /\ exitCode = 0]
  /\ UNCHANGED <<isRemote, argv, tpl, cwd>>

Next ==
  \/ MainList
  \/ MainUsage
  \/ MainScaffold
  \/ FetchLocal
  \/ FetchRemote
  \/ DownloadListing
  \/ DownloadItem
  \/ CreateProject
  \/ Confirm
  \/ CopyStart
  \/ CopyEntry
  \/ CopyReturn
  \/ CopyFinish
  \/ Cleanup
  \/ Rerun

Spec == Init /\ [][Next]_vars

(* ------------------------------ properties --------------------------- *)

\* the file paths of the requested template, relative to the template directory
TemplateFiles == Files(Sub(tpl, TemplatePath)) \ {<< >>}

\* the requested name is a template of the templates root
IsTemplate == IsDir(tpl, TemplatePath)

\* the destination was absent, or an empty directory, when this invocation started
DestWasEmpty ==
  \/ ~Exists(hist.cwd0, ProjectDir)
  \/ IsDir(hist.cwd0, ProjectDir) /\ Children(hist.cwd0, ProjectDir) = {}

\* the destination was a directory with entries when this invocation started
DestWasNonEmpty == IsDir(hist.cwd0, ProjectDir) /\ Children(hist.cwd0, ProjectDir) # {}

Scaffolding == options.templateName \notin {NoArg, "list"}

\* C1, as claimed: a scaffold run of a template of the templates root against an
\* absent or empty destination ends with exit code 0 and a destination tree equal to
\* the template tree, paths and bytes. Stated for the runs in which no step fails.
C1_ScaffoldCopiesTemplate ==
  (pc = "done" /\ Scaffolding /\ IsTemplate /\ DestWasEmpty /\ ~hist.fault)
    => /\ exitCode = 0
       /\ Sub(cwd, ProjectDir) = Sub(tpl, TemplatePath)

\* C1, the part that holds: the same for a local run
C1_LocalScaffoldCopiesTemplate ==
  (pc = "done" /\ ~isRemote /\ Scaffolding /\ IsTemplate /\ DestWasEmpty /\ ~hist.fault)
    => /\ exitCode = 0
       /\ Sub(cwd, ProjectDir) = Sub(tpl, TemplatePath)

C1_LocalWitness ==
  /\ pc = "done" /\ ~isRemote /\ Scaffolding /\ IsTemplate /\ DestWasEmpty /\ ~hist.fault
  /\ Cardinality(TemplateFiles) > 1
  /\ Sub(cwd, ProjectDir) = Sub(tpl, TemplatePath)

\* C2, as claimed: when a run has ended, every destination file it replaced has a
\* sibling <path>.backup holding the bytes the file had before, also when the backup
\* copy failed.
C2_EveryOverwriteHasBackup ==
  pc = "done" =>
    \A r \in hist.overwritten :
      IsFile(cwd, Backup(r.path)) /\ cwd[Backup(r.path)] = r.was

\* C2, amended: from its replacement to the end of the run, every destination file
\* replaced after a successful backup copy has a sibling <path>.backup holding the bytes
\* the file had before, unless the template has a file of its own at <path>.backup; a
\* file whose backup copy failed was replaced all the same, with a warning.
C2_OverwriteWithBackupMade ==
  \A r \in hist.overwritten :
    /\ (r.saved /\ Backup(r.path) \notin {ProjectDir \o f : f \in TemplateFiles})
         => IsFile(cwd, Backup(r.path)) /\ cwd[Backup(r.path)] = r.was
    /\ ~r.saved => "Error creating backup" \in out.errors

C2_Witness ==
  /\ pc = "done"
  /\ \E r \in hist.overwritten :
       /\ r.saved
       /\ cwd[r.path] # r.was
       /\ IsFile(cwd, Backup(r.path))
       /\ cwd[Backup(r.path)] = r.was
  /\ \E r \in hist.overwritten : ~r.saved

\* C3: until the confirmation of a non-empty destination is accepted nothing under the
\* working directory changes, and a declined run ends with exit code 0 and the
\* working directory as it was when the run started.
C3_DeclineLeavesDestination ==
  /\ pc = "confirm" => DestWasNonEmpty /\ cwd = hist.cwd0
  /\ answer = "no" => pc = "done" /\ exitCode = 0 /\ DestWasNonEmpty /\ cwd = hist.cwd0

C3_Witness ==
  /\ answer = "no"
  /\ pc = "done"
  /\ out.plan # {}
  /\ Files(cwd) # {}

\* the destination was a directory with entries before the first invocation
DestOriginNonEmpty == IsDir(hist.origin, ProjectDir) /\ Children(hist.origin, ProjectDir) # {}

\* the second of two invocations of the same command has ended, both accepted where a
\* confirmation was requested, both reporting success, no step of either having failed
TwoRunsDone ==
  /\ runs = 2
  /\ pc = "done"
  /\ exitCode = 0
  /\ out.success
  /\ hist.clean
  /\ ~hist.fault
  /\ IsTemplate
  /\ DestOriginNonEmpty

\* the template file paths at which the destination had a file before the first run
OriginallyOverwritten == {f \in TemplateFiles : IsFile(hist.origin, ProjectDir \o f)}

\* `path` is as it was before the first invocation
Untouched(path) ==
  /\ Exists(cwd, path) <=> Exists(hist.origin, path)
  /\ Exists(cwd, path) => cwd[path] = hist.origin[path]

\* C4, as claimed: after two accepted runs into an initially non-empty destination there
\* is a .backup for each originally overwritten path, holding what the first run wrote,
\* no .backup.backup, and no .backup for the paths the first run created.
C4_OneBackupPerOverwrittenPath ==
  TwoRunsDone =>
    /\ \A f \in OriginallyOverwritten :
         /\ IsFile(cwd, Backup(ProjectDir \o f))
         /\ cwd[Backup(ProjectDir \o f)] = cwd[ProjectDir \o f]
         /\ Untouched(Backup(Backup(ProjectDir \o f)))
    /\ \A f \in TemplateFiles \ OriginallyOverwritten :
         Untouched(Backup(ProjectDir \o f))

\* a template file path that is not the .backup of a template file and whose .backup is
\* not a template file
Uncontended(f) ==
  /\ Backup(f) \notin TemplateFiles
  /\ \A g \in TemplateFiles : Backup(g) # f

\* C4, amended: after two accepted runs there is a .backup for every template file
\* path, the paths the first run created included; for a path outside a name collision
\* of the template it holds what the first run wrote there, and no .backup.backup is made.
C4_BackupOfEveryTemplatePath ==
  TwoRunsDone =>
    \A f \in TemplateFiles :
      /\ IsFile(cwd, Backup(ProjectDir \o f))
      /\ Uncontended(f) =>
           /\ cwd[Backup(ProjectDir \o f)] = cwd[ProjectDir \o f]
           /\ Untouched(Backup(Backup(ProjectDir \o f)))

C4_Witness ==
  /\ TwoRunsDone
  /\ \E f \in TemplateFiles \ OriginallyOverwritten :
       /\ ~Exists(hist.origin, Backup(ProjectDir \o f))
       /\ IsFile(cwd, Backup(ProjectDir \o f))
  /\ \E f \in OriginallyOverwritten :
       /\ Uncontended(f)
       /\ cwd[Backup(ProjectDir \o f)] # hist.origin[ProjectDir \o f]
       /\ cwd[Backup(ProjectDir \o f)] = cwd[ProjectDir \o f]

\* the template name resolves to no template: locally no directory of that name,
\* remotely a not-found answer to the listing of the template path
Unresolved ==
  /\ Scaffolding
  /\ IF isRemote THEN << >> \in hist.notFound ELSE ~IsTemplate

\* C5, as claimed: a run whose template name does not resolve exits with code 1 and
\* leaves everything under the working directory as it was, the destination not created.
C5_UnresolvedWritesNothing ==
  (pc # "main" /\ Unresolved) =>
    /\ cwd = hist.cwd0
    /\ pc = "done" => exitCode = 1

DownloadOver == isRemote /\ pc \in {"create", "confirm", "copy", "copying"}

C7_CleanupAlwaysAttempted ==
  (isRemote /\ hist.copyReached /\ pc = "done") =>
    /\ hist.cleanupTried
    /\ "Could not clean up temporary files" \in out.errors => exitCode = 0

\* C8, as claimed: a run that reports success has every file of the template in the
\* destination.
C8_SuccessMeansComplete ==
  (pc = "done" /\ exitCode = 0 /\ out.success) =>
    \A f \in TemplateFiles : IsFile(cwd, ProjectDir \o f)

\* C9, as claimed: with a template name, a project name of ".", "./", "" or the
\* working directory parses to projectName "." and isCurrentDir, the copy goes to the
\* working directory and no hint is printed; another name gives isCurrentDir false,
\* and no second argument gives the template name.
C9_CurrentDirectoryAliases ==
  (pc # "main" /\ ~Falsy(argv.t)) =>
    /\ argv.p \in {".", "./", "", CWD} =>
         /\ options.projectName = "." /\ options.isCurrentDir
         /\ ProjectDir = << >>
         /\ ~out.hint
    /\ argv.p \notin {".", "./", "", CWD} => ~options.isCurrentDir
    /\ argv.p = NoArg => options.projectName = options.templateName

\* C10, as claimed: a run without a template name has printed the usage text and the
\* template names when it ends, with exit code 1.
C10_UsageListsTemplates ==
  (pc = "done" /\ Falsy(argv.t)) =>
    /\ exitCode = 1
    /\ out.usage
    /\ out.names = TemplateNames

\* C11: the list command ends with exit code 0, nothing under the working directory
\* created or changed and no temporary directory made; when its listing is answered it
\* has printed the names of the directories of the templates root and of no file
\* there, and when the remote listing fails it has printed no name.
C11_ListPrintsDirectories ==
  (pc = "done" /\ options.templateName = "list") =>
    /\ exitCode = 0
    /\ cwd = hist.cwd0
    /\ tmp = NoTmp
    /\ ~hist.fault =>
         out.listed = {path[1][1] : path \in {q \in DOMAIN tpl : Len(q) = 1 /\ tpl[q] = DIR}}
    /\ hist.fault => isRemote /\ out.listed = {}

C11_Witness ==
  /\ pc = "done"
  /\ options.templateName = "list"
  /\ isRemote
  /\ argv.p = "new"
  /\ ~Exists(cwd, <<Comp("new")>>)
  /\ IsFile(tpl, <<Comp("README")>>)
  /\ out.listed = {"app"}

\* the paths of the destination the copy may write: the template's file paths and
\* the .backup siblings of these
Replaceable == {ProjectDir \o f : f \in TemplateFiles} \cup {Backup(ProjectDir \o f) : f \in TemplateFiles}

\* C12: at every point of a scaffold run and whatever its outcome, every file that was
\* under the working directory when the run started, at a path that is neither a
\* template file path of the destination nor the .backup of one, is there with the
\* bytes it had.
C12_OtherFilesKept ==
  Scaffolding =>
    \A path \in Files(hist.cwd0) \ Replaceable :
      IsFile(cwd, path) /\ cwd[path] = hist.cwd0[path]

C12_Witness ==
  /\ pc = "done"
  /\ exitCode = 1
  /\ hist.overwritten # {}
  /\ DestWasNonEmpty
  /\ \E path \in Files(hist.cwd0) \ Replaceable :
       /\ IsPrefix(ProjectDir, path)
       /\ cwd[path] = hist.cwd0[path]

\* the copy went through after an accepted confirmation of a non-empty destination,
\* no backup copy having failed
CopiedAfterPlan ==
  /\ pc = "done"
  /\ answer = "yes"
  /\ out.success
  /\ "Error creating backup" \notin out.errors

\* C13, as claimed: after an accepted confirmation and a copy without a failing step,
\* the paths the plan marked are exactly the paths the copy made a backup of, for every
\* template, one with both p and p.backup included.
C13_PlanIsBackups ==
  CopiedAfterPlan => out.plan = out.backups

\* C13, amended: the paths the plan marked are all backed up, and a backup of a path
\* the plan did not mark is the backup of <p>.backup for a template file p: for a
\* template in which no file is the .backup of another the two sets are equal.
C13_PlanWithinBackups ==
  CopiedAfterPlan =>
    /\ out.plan \subseteq out.backups
    /\ \A f \in out.backups \ out.plan : \E g \in TemplateFiles : f = Backup(g)
    /\ (\A f \in TemplateFiles : Backup(f) \notin TemplateFiles) => out.plan = out.backups

C13_Witness ==
  /\ CopiedAfterPlan
  /\ out.plan # {}
  /\ out.plan = out.backups
  /\ TemplateFiles \ out.plan # {}
  /\ \A f \in TemplateFiles : Backup(f) \notin TemplateFiles

====
